---- MODULE Spec2Model ----
(***************************************************************************)
(* pyPreservica: the authenticated session (common.py, AuthenticatedAPI)   *)
(* and the entity layer (entityAPI.py, EntityAPI) as a state machine.      *)
(* One action is one step of a method: the HTTP exchange it performs (the  *)
(* server's status is chosen by \E) and the control flow up to the next    *)
(* exchange.  Python's call stack is the variable stack.                    *)
(***************************************************************************)
EXTENDS Integers, Sequences, FiniteSets, TLC

----------------------------------------------------------------------------
\* Bounds of the model.
\* frames the interpreter allows (sys.getrecursionlimit(), scaled down)
RecursionLimit == 3
\* metadata fragments held by an entity
MaxFragments == 2
\* links (bitstreams, content objects) in one listing
MaxLinks == 2
\* generations of one content object
MaxGenerations == 1
\* identifiers in one listing
MaxIdentifiers == 2
\* progress requests of one security_tag_sync
MaxPolls == 2
\* pages that follow the first page of a listing
MaxPages == 1
\* entities on one page
MaxPageSize == 1

----------------------------------------------------------------------------
\* requests.codes, and one representative of every other status.
ok == 200
accepted == 202
no_content == 204
unauthorized == 401
not_found == 404
server_error == 500
StatusCodes == {ok, accepted, no_content, unauthorized, not_found, server_error}

None == "None"
Undefined == "Undefined"
IO_PATH == "information-objects"
SO_PATH == "structural-objects"
CO_PATH == "content-objects"

\* The names bound at module level in entityAPI.py: its own imports and the
\* public module-level names of common.py (from pyPreservica.common import *).
\* entity_from_string is a method of AuthenticatedAPI and NS_XIP_V6 is the
\* only spelling of that constant, so the bare names entity_from_string and
\* NS_XIPV6 used by entityAPI.py are not among them.
ModuleNames ==
    {"sys", "uuid", "datetime", "timedelta", "timezone", "sleep", "xml", "IOBase",
     "Optional", "requests", "os", "json", "logger", "CHUNK_SIZE", "NS_XIP_V6",
     "NS_ENTITY", "HEADER_TOKEN", "IO_PATH", "SO_PATH", "CO_PATH", "PagedSet",
     "EntityType", "Bitstream", "Generation", "Entity", "Folder", "Asset",
     "ContentObject", "Representation", "Thumbnail", "AuthenticatedAPI"}

\* The attributes Entity.__init__ and its subclasses set on an entity.
EntityAttrs ==
    {"reference", "title", "description", "security_tag", "parent", "metadata",
     "entity_type", "path", "tag"}

Schemas == {1, 2}
EntityTypes == {"IO", "SO", "CO"}

\* entity.metadata is a dict url -> schema, iterated in insertion order: the
\* k-th fragment has the url <<"fragment", k>> and the schema md[k].
RECURSIVE SeqsUpTo(_, _)
SeqsUpTo(S, n) ==
    IF n = 0 THEN {<<>>}
    ELSE LET shorter == SeqsUpTo(S, n - 1)
         IN  shorter \cup {Append(q, x) : q \in {r \in shorter : Len(r) = n - 1}, x \in S}

Entities == [type : EntityTypes, ref : {1}, md : SeqsUpTo(Schemas, MaxFragments)]
NoEntity == [type |-> "none", ref |-> 0, md |-> <<>>]

VARIABLES
    pc,             \* "idle", "running", "returned", "raised": the state of the call
    exc,            \* the exception that ended the call, or None
    ret,            \* what the call returned, or None
    call,           \* the operation invoked and its arguments
    stack,          \* the frames of the call, innermost last
    token,          \* self.token
    tenant,         \* self.tenant
    shared_secret,  \* self.shared_secret
    username,       \* self.username, self.password, self.server
    password,
    server,
    src,            \* the sources of the credential __init__ resolved last: argument, environment, file
    major_version,  \* self.major_version, self.minor_version, self.patch_version:
    minor_version,  \*   a number, or Unset while the attribute is not set
    patch_version,
    xip_ns,         \* self.xip_ns, self.entity_ns, self.sec_ns: a string, or Undefined
    entity_ns,
    sec_ns,
    log             \* the requests sent since the call began, with their answers

client == <<shared_secret, username, password, server, src, major_version, minor_version, patch_version, xip_ns, entity_ns, sec_ns>>

vars == <<pc, exc, ret, call, stack, token, tenant, client, log>>

----------------------------------------------------------------------------
\* Frames and the log.

\* The paged set of a frame or a value that holds none.
NoPage == [results |-> <<>>, has_more |-> FALSE, next_page |-> 0]

Frame(f, e, k, fl) ==
    [fn |-> f, ent |-> e, key |-> k, flag |-> fl, hdr |-> 0, pos |-> "start", i |-> 0, n |-> 0,
     val |-> NoPage, list |-> <<>>]

Top == stack[Len(stack)]

ReplaceTop(fr) == [stack EXCEPT ![Len(stack)] = fr]

\* An entry of the log: one request and the status the server answered; links
\* is the number of links a listing answered with 200 holds.
Http(method, url, tok, st) ==
    [kind |-> "http", fn |-> Top.fn, method |-> method, url |-> url, tok |-> tok, status |-> st,
     ent |-> Top.ent, key |-> Top.key, flag |-> Top.flag, depth |-> Len(stack),
     ret |-> 0, links |-> 0, body |-> <<>>]

\* The frames that only pass their callee's value on (return self.f(...)).
RECURSIVE Unwind(_)
Unwind(s) ==
    IF s = <<>> THEN s
    ELSE IF s[Len(s)].pos = "tail" THEN Unwind(SubSeq(s, 1, Len(s) - 1))
    ELSE s

\* raise e: the exception propagates through every frame (no frame of this
\* code catches it).
CtlRaise(e) ==
    /\ pc' = "raised"
    /\ exc' = e
    /\ UNCHANGED <<ret, stack>>

\* return v from the top frame: ret is the value the caller receives, v
\* naming it and page being the paged set when it is one.
CtlReturn(v) ==
    LET s == Unwind(SubSeq(stack, 1, Len(stack) - 1))
    IN  /\ stack' = s
        /\ pc' = IF s = <<>> THEN "returned" ELSE pc
        /\ ret' = [value |-> v, page |-> NoPage]
        /\ exc' = exc

\* return p, a PagedSet.
CtlReturnPage(p) ==
    LET s == Unwind(SubSeq(stack, 1, Len(stack) - 1))
    IN  /\ stack' = s
        /\ pc' = IF s = <<>> THEN "returned" ELSE pc
        /\ ret' = [value |-> "PagedSet", page |-> p]
        /\ exc' = exc

CtlCall_unbounded(p, f) ==
    /\ stack' = Append(ReplaceTop([Top EXCEPT !.pos = p]), f)
    /\ UNCHANGED <<pc, exc, ret>>

\* The top frame, left at position p, calls f.
CtlCall(p, f) ==
    IF Len(stack) < RecursionLimit
    THEN /\ stack' = Append(ReplaceTop([Top EXCEPT !.pos = p]), f)
         /\ UNCHANGED <<pc, exc, ret>>
    ELSE CtlRaise("RecursionError")

\* The top frame goes on with its next statement.
CtlStep(fr) ==
    /\ stack' = ReplaceTop(fr)
    /\ UNCHANGED <<pc, exc, ret>>

----------------------------------------------------------------------------
\* AuthenticatedAPI.__token__

ServerTenant == "tenant"

\* int(time.time()): the clock advances with every exchange.
Now == Len(log) + 1

sha1(s) == "sha1(" \o s \o ")"

__token___leak(st) ==
    IF shared_secret = FALSE
    THEN [kind |-> "token", fn |-> "__token__", method |-> "POST",
          url |-> <<"accesstoken/login", 0>>, tok |-> 0, status |-> st,
          ent |-> NoEntity, key |-> 0, flag |-> FALSE, depth |-> Len(stack),
          ret |-> IF st = ok THEN token + 1 ELSE 0, links |-> 0,
          body |-> IF tenant = None
                   THEN <<"username", username, "password", password, "includeUserDetails", "true">>
                   ELSE <<"username", username, "password", password, "tenant", tenant>>]
    ELSE [kind |-> "token", fn |-> "__token__", method |-> "POST",
          url |-> <<"accesstoken/acquire-external", 0>>, tok |-> 0, status |-> st,
          ent |-> NoEntity, key |-> 0, flag |-> FALSE, depth |-> Len(stack),
          ret |-> IF st = ok THEN token + 1 ELSE 0, links |-> 0,
          body |-> <<"username", username, "tenant", tenant, "timestamp", ToString(Now),
                     "hash", sha1("preservica-external-auth" \o ToString(Now) \o username \o password),
                     "password", password>>]

\* The token request __token__ sends and the server's answer st; body is the
\* data dictionary handed to session.post.  A 200 carries a token the server
\* has not issued before.
__token__(st) ==
    IF shared_secret = FALSE
    THEN [kind |-> "token", fn |-> "__token__", method |-> "POST",
          url |-> <<"accesstoken/login", 0>>, tok |-> 0, status |-> st,
          ent |-> NoEntity, key |-> 0, flag |-> FALSE, depth |-> Len(stack),
          ret |-> IF st = ok THEN token + 1 ELSE 0, links |-> 0,
          body |-> IF tenant = None
                   THEN <<"username", username, "password", password, "includeUserDetails", "true">>
                   ELSE <<"username", username, "password", password, "tenant", tenant>>]
    ELSE [kind |-> "token", fn |-> "__token__", method |-> "POST",
          url |-> <<"accesstoken/acquire-external", 0>>, tok |-> 0, status |-> st,
          ent |-> NoEntity, key |-> 0, flag |-> FALSE, depth |-> Len(stack),
          ret |-> IF st = ok THEN token + 1 ELSE 0, links |-> 0,
          body |-> <<"username", username, "tenant", tenant, "timestamp", ToString(Now),
                     "hash", sha1("preservica-external-auth" \o ToString(Now) \o username \o password)>>]

\* self.tenant after __token__ was answered st.
TenantAfter(st) ==
    IF shared_secret = FALSE /\ st = ok /\ tenant = None THEN ServerTenant ELSE tenant

\* A request was answered: nothing but the log changes.
Answered(req) ==
    /\ log' = log \o <<req>>
    /\ UNCHANGED <<token, tenant>>

Retry_goes_on(req, f) ==
    \E st \in StatusCodes :
        LET t == __token__(st)
        IN  /\ log' = log \o <<req, t>>
            /\ tenant' = TenantAfter(st)
            /\ token' = IF st = ok THEN t.ret ELSE token
            /\ CtlCall("tail", [f EXCEPT !.hdr = token'])

\* The branch every method takes on 401:
\*     self.token = self.__token__()
\*     return self.f(args)
\* req is the rejected request and f the frame of the recursive call.
Retry(req, f) ==
    \E st \in StatusCodes :
        LET t == __token__(st)
        IN  /\ log' = log \o <<req, t>>
            /\ tenant' = TenantAfter(st)
            /\ IF st = ok
               THEN /\ token' = t.ret
                    /\ CtlCall("tail", [f EXCEPT !.hdr = t.ret])
               ELSE /\ token' = token
                    /\ CtlRaise("RuntimeError")

----------------------------------------------------------------------------
\* EntityAPI: the operations that send one request.

\* asset, folder and content_object differ in the path and the class only.
EntityGet(f, path, cls) ==
    /\ pc = "running"
    /\ Top.fn = f
    /\ UNCHANGED <<call, client>>
    /\ \E st \in StatusCodes :
        LET req == Http("GET", <<path, Top.key>>, Top.hdr, st)
        IN  IF st = ok
            THEN /\ Answered(req)
                 /\ IF "entity_from_string" \in ModuleNames
                    THEN CtlReturn(cls)
                    ELSE CtlRaise("NameError")
            ELSE IF st = unauthorized
            THEN Retry(req, Frame(f, Top.ent, Top.key, Top.flag))
            ELSE /\ Answered(req)
                 /\ CtlRaise("RuntimeError")

asset == EntityGet("asset", IO_PATH, "Asset")

folder == EntityGet("folder", SO_PATH, "Folder")

content_object == EntityGet("content_object", CO_PATH, "ContentObject")

\* self.entity(entity_type, reference): the frame of the method it dispatches to.
entity(type, ref) ==
    [Frame(CASE type = "CO" -> "content_object"
             [] type = "SO" -> "folder"
             [] type = "IO" -> "asset",
           NoEntity, ref, FALSE) EXCEPT !.hdr = token]

metadata ==
    /\ pc = "running"
    /\ Top.fn = "metadata"
    /\ UNCHANGED <<call, client>>
    /\ \E st \in StatusCodes :
        LET req == Http("GET", <<"fragment", Top.key>>, token, st)
        IN  IF st = ok
            THEN Answered(req) /\ CtlReturn("str")
            ELSE IF st = unauthorized
            THEN Retry(req, Frame("metadata", Top.ent, Top.key, Top.flag))
            ELSE Answered(req) /\ CtlRaise("RuntimeError")

\* The page a 200 of a paged end point carries: results holds size entities,
\* the k-th of the page with url u being <<u, k>>; next is the text of the
\* Next element, 0 when the answer holds no Next element.
\*     has_more = True; url = None
\*     if next_url is None: has_more = False
\*     else: url = next_url.text
\*     return PagedSet(result, has_more, total_hits.text, url)
PagedSet_more(results, next) ==
    [results |-> results, has_more |-> TRUE, next_page |-> next]

PagedSet(results, next) ==
    [results |-> results, has_more |-> next # 0, next_page |-> next]

\* children(folder_reference, maximum, next_page): ent.ref is the folder
\* reference (0 for None) and key the next_page url (0 for None).  The
\* results are a set, listed here as its elements; whoever iterates over it
\* takes them in any order.
children ==
    /\ pc = "running"
    /\ Top.fn = "children"
    /\ UNCHANGED <<call, client>>
    /\ \E st \in StatusCodes, size \in 0..MaxPageSize, next \in {0} \cup (Top.key + 1)..MaxPages :
        LET url == IF Top.key = 0
                   THEN IF Top.ent.ref = 0 THEN <<"root/children", 0>>
                        ELSE <<"structural-objects/children", Top.ent.ref>>
                   ELSE <<"page", Top.key>>
            req == Http("GET", url, Top.hdr, st)
        IN  IF st = ok
            THEN /\ Answered([req EXCEPT !.body = <<size, next>>])
                 /\ CtlReturnPage(PagedSet([k \in 1..size |-> <<Top.key, k>>], next))
            ELSE IF st = unauthorized
            THEN Retry(req, Frame("children", Top.ent, Top.key, Top.flag))
            ELSE Answered(req) /\ CtlRaise("RuntimeError")

\* An entity handed to the consumer of a generator.
Yield(e) == [Http("", <<"", 0>>, 0, 0) EXCEPT !.kind = "yield", !.body = <<e>>]

\* descendants(folder_reference, maximum): return self.children_items(...).
descendants ==
    /\ pc = "running"
    /\ Top.fn = "descendants"
    /\ UNCHANGED <<call, client, token, tenant, log>>
    /\ CtlCall("tail", Frame("children_items", Top.ent, 0, FALSE))

\* children_items(folder_reference, maximum), consumed to its end: val is
\* paged_set and list the results of it not yet yielded.
children_items ==
    /\ pc = "running"
    /\ Top.fn = "children_items"
    /\ UNCHANGED <<call, client, token, tenant>>
    /\ IF Top.pos = "start"
       THEN /\ UNCHANGED log
            /\ CtlCall("page", [Frame("children", Top.ent, 0, FALSE) EXCEPT !.hdr = token])
       ELSE IF Top.pos = "page"
       THEN /\ UNCHANGED log
            /\ CtlStep([Top EXCEPT !.pos = "yield", !.val = ret.page, !.list = ret.page.results])
       ELSE IF Top.list # <<>>
       THEN \E k \in 1..Len(Top.list) :
            /\ log' = Append(log, Yield(Top.list[k]))
            /\ CtlStep([Top EXCEPT !.list = SubSeq(Top.list, 1, k - 1)
                                             \o SubSeq(Top.list, k + 1, Len(Top.list))])
       ELSE /\ UNCHANGED log
            /\ IF Top.val.has_more
               THEN CtlCall("page", [Frame("children", Top.ent, Top.val.next_page, FALSE)
                                        EXCEPT !.hdr = token])
               ELSE CtlReturn("StopIteration")

\* The methods of EntityAPI and, of AuthenticatedAPI, those a call reaches.
Methods ==
    {"bitstream_content", "download", "thumbnail", "delete_identifiers",
     "identifiers_for_entity", "identifier", "add_identifier", "delete_metadata",
     "update_metadata", "add_metadata", "save", "move", "create_folder",
     "metadata_for_entity", "security_tag_sync", "security_tag_async", "metadata",
     "entity", "asset", "folder", "content_object", "content_objects", "generation",
     "bitstream", "generations", "representations", "descendants", "children_items",
     "children", "updated_entities", "_updated_entities_page", "security_tags_base",
     "entity_from_string", "__token__"}

\* _updated_entities_page(previous_days, maximum, next_page): key is the
\* next_page url (0 for None).  The results are a list.  The 401 branch
\* refreshes the token and then calls self._updated_entities, a method the
\* class does not have.
_updated_entities_page ==
    /\ pc = "running"
    /\ Top.fn = "_updated_entities_page"
    /\ UNCHANGED <<call, client>>
    /\ \E st \in StatusCodes, size \in 0..MaxPageSize, next \in {0} \cup (Top.key + 1)..MaxPages :
        LET url == IF Top.key = 0 THEN <<"entities/updated-since", 0>> ELSE <<"page", Top.key>>
            req == Http("GET", url, Top.hdr, st)
        IN  IF st = ok
            THEN /\ Answered([req EXCEPT !.body = <<size, next>>])
                 /\ CtlReturnPage(PagedSet([k \in 1..size |-> <<Top.key, k>>], next))
            ELSE IF st = unauthorized
            THEN IF "_updated_entities" \in Methods
                 THEN Retry(req, Frame("_updated_entities", Top.ent, Top.key, Top.flag))
                 ELSE \E st2 \in StatusCodes :
                      LET t == __token__(st2)
                      IN  /\ log' = log \o <<req, t>>
                          /\ tenant' = TenantAfter(st2)
                          /\ IF st2 = ok
                             THEN token' = t.ret /\ CtlRaise("AttributeError")
                             ELSE token' = token /\ CtlRaise("RuntimeError")
            ELSE Answered(req) /\ CtlRaise("RuntimeError")

\* updated_entities(previous_days, maximum), consumed to its end: val is
\* paged_set and list the results of it not yet yielded.
updated_entities ==
    /\ pc = "running"
    /\ Top.fn = "updated_entities"
    /\ UNCHANGED <<call, client, token, tenant>>
    /\ IF Top.pos = "start"
       THEN /\ UNCHANGED log
            /\ CtlCall("page", [Frame("_updated_entities_page", Top.ent, 0, FALSE) EXCEPT !.hdr = token])
       ELSE IF Top.pos = "page"
       THEN /\ UNCHANGED log
            /\ CtlStep([Top EXCEPT !.pos = "yield", !.val = ret.page, !.list = ret.page.results])
       ELSE IF Top.list # <<>>
       THEN /\ log' = Append(log, Yield(Head(Top.list)))
            /\ CtlStep([Top EXCEPT !.list = Tail(Top.list)])
       ELSE /\ UNCHANGED log
            /\ IF Top.val.has_more
               THEN CtlCall("page", [Frame("_updated_entities_page", Top.ent, Top.val.next_page, FALSE)
                                        EXCEPT !.hdr = token])
               ELSE CtlReturn("StopIteration")

bitstream ==
    /\ pc = "running"
    /\ Top.fn = "bitstream"
    /\ UNCHANGED <<call, client>>
    /\ \E st \in StatusCodes :
        LET req == Http("GET", <<"bitstream", Top.key>>, Top.hdr, st)
        IN  IF st = ok
            THEN Answered(req) /\ CtlReturn("Bitstream")
            ELSE IF st = unauthorized
            THEN Retry(req, Frame("bitstream", Top.ent, Top.key, Top.flag))
            ELSE Answered(req) /\ CtlRaise("RuntimeError")

\* save(entity): entity._tag and NS_XIPV6 are evaluated before the request.
save ==
    /\ pc = "running"
    /\ Top.fn = "save"
    /\ UNCHANGED <<call, client>>
    /\ IF "_tag" \notin EntityAttrs
       THEN CtlRaise("AttributeError") /\ UNCHANGED <<token, tenant, log>>
       ELSE IF "NS_XIPV6" \notin ModuleNames
       THEN CtlRaise("NameError") /\ UNCHANGED <<token, tenant, log>>
       ELSE IF "_path" \notin EntityAttrs
       THEN CtlRaise("AttributeError") /\ UNCHANGED <<token, tenant, log>>
       ELSE \E st \in StatusCodes :
            LET req == Http("PUT", <<"entity", Top.ent.ref>>, Top.hdr, st)
            IN  IF st = ok
                THEN /\ Answered(req)
                     /\ IF "entity_from_string" \in ModuleNames
                        THEN CtlReturn("Entity")
                        ELSE CtlRaise("NameError")
                ELSE IF st = unauthorized
                THEN Retry(req, Frame("save", Top.ent, Top.key, Top.flag))
                ELSE Answered(req) /\ CtlRaise("RuntimeError")

\* move(entity, dest_folder): key is the reference of dest_folder, 0 for None.
move ==
    /\ pc = "running"
    /\ Top.fn = "move"
    /\ UNCHANGED <<call, client>>
    /\ IF Top.ent.type = "IO" /\ Top.key = 0
       THEN CtlRaise("RuntimeError") /\ UNCHANGED <<token, tenant, log>>
       ELSE IF "_path" \notin EntityAttrs
       THEN CtlRaise("AttributeError") /\ UNCHANGED <<token, tenant, log>>
       ELSE \E st \in StatusCodes :
            LET data == IF Top.key # 0 THEN <<Top.key>> ELSE <<"@root@">>
                req == [Http("PUT", <<"parent-ref", Top.ent.ref>>, Top.hdr, st) EXCEPT !.body = data]
            IN  IF st = accepted
                THEN Answered(req) /\ CtlCall("tail", entity(Top.ent.type, Top.ent.ref))
                ELSE IF st = unauthorized
                THEN Retry(req, Frame("move", Top.ent, Top.key, Top.flag))
                ELSE Answered(req) /\ CtlRaise("RuntimeError")

add_identifier ==
    /\ pc = "running"
    /\ Top.fn = "add_identifier"
    /\ UNCHANGED <<call, client>>
    /\ IF "NS_XIPV6" \notin ModuleNames
       THEN CtlRaise("NameError") /\ UNCHANGED <<token, tenant, log>>
       ELSE IF "_path" \notin EntityAttrs
       THEN CtlRaise("AttributeError") /\ UNCHANGED <<token, tenant, log>>
       ELSE \E st \in StatusCodes :
            LET req == Http("POST", <<"identifiers", Top.ent.ref>>, Top.hdr, st)
            IN  IF st = ok
                THEN Answered(req) /\ CtlReturn("str")
                ELSE IF st = unauthorized
                THEN Retry(req, Frame("add_identifier", Top.ent, Top.key, Top.flag))
                ELSE Answered(req) /\ CtlRaise("RuntimeError")

----------------------------------------------------------------------------
\* EntityAPI: the operations that walk a listing.

MoreLinks_none(fr) == FALSE

\* for link in links: the loop of frame fr has a link left to follow.
MoreLinks(fr) == fr.i < fr.n

\* generation(url): one request for the generation, then self.bitstream for
\* each of the n Bitstream links of the answer.
generation ==
    /\ pc = "running"
    /\ Top.fn = "generation"
    /\ UNCHANGED <<call, client>>
    /\ IF Top.pos = "start"
       THEN \E st \in StatusCodes, n \in 0..MaxLinks :
            LET req == Http("GET", <<"generation", Top.key>>, Top.hdr, st)
            IN  IF st = ok
                THEN /\ Answered([req EXCEPT !.links = n])
                     /\ CtlStep([Top EXCEPT !.pos = "loop", !.i = 0, !.n = n])
                ELSE IF st = unauthorized
                THEN Retry(req, Frame("generation", Top.ent, Top.key, Top.flag))
                ELSE Answered(req) /\ CtlRaise("RuntimeError")
       ELSE /\ UNCHANGED <<token, tenant, log>>
            /\ IF MoreLinks(Top)
               THEN LET fr == [Top EXCEPT !.i = Top.i + 1]
                    IN  IF Len(stack) < RecursionLimit
                        THEN /\ stack' = Append(ReplaceTop(fr),
                                                [Frame("bitstream", NoEntity, Top.i + 1, FALSE) EXCEPT !.hdr = token])
                             /\ UNCHANGED <<pc, exc, ret>>
                        ELSE CtlRaise("RecursionError")
               ELSE CtlReturn("Generation")

\* generations(content_object): one request for the list, then self.generation
\* for each of the n Generation links of the answer.
generations ==
    /\ pc = "running"
    /\ Top.fn = "generations"
    /\ UNCHANGED <<call, client>>
    /\ IF Top.pos = "start"
       THEN \E st \in StatusCodes, n \in 0..MaxGenerations :
            LET req == Http("GET", <<"generations", Top.ent.ref>>, Top.hdr, st)
            IN  IF st = ok
                THEN /\ Answered([req EXCEPT !.links = n])
                     /\ CtlStep([Top EXCEPT !.pos = "loop", !.i = 0, !.n = n])
                ELSE IF st = unauthorized
                THEN Retry(req, Frame("generations", Top.ent, Top.key, Top.flag))
                ELSE Answered(req) /\ CtlRaise("RuntimeError")
       ELSE /\ UNCHANGED <<token, tenant, log>>
            /\ IF MoreLinks(Top)
               THEN LET fr == [Top EXCEPT !.i = Top.i + 1]
                    IN  IF Len(stack) < RecursionLimit
                        THEN /\ stack' = Append(ReplaceTop(fr),
                                                [Frame("generation", NoEntity, Top.i + 1, FALSE) EXCEPT !.hdr = token])
                             /\ UNCHANGED <<pc, exc, ret>>
                        ELSE CtlRaise("RecursionError")
               ELSE CtlReturn("list")

\* content_objects(representation): one request for the representation, then
\* self.content_object for each of the n ContentObject links of the answer.
content_objects ==
    /\ pc = "running"
    /\ Top.fn = "content_objects"
    /\ UNCHANGED <<call, client>>
    /\ IF Top.pos = "start"
       THEN \E st \in StatusCodes, n \in 0..MaxLinks :
            LET req == Http("GET", <<"representation", Top.key>>, Top.hdr, st)
            IN  IF st = ok
                THEN /\ Answered([req EXCEPT !.links = n])
                     /\ CtlStep([Top EXCEPT !.pos = "loop", !.i = 0, !.n = n])
                ELSE IF st = unauthorized
                THEN Retry(req, Frame("content_objects", Top.ent, Top.key, Top.flag))
                ELSE Answered(req) /\ CtlRaise("RuntimeError")
       ELSE /\ UNCHANGED <<token, tenant, log>>
            /\ IF MoreLinks(Top)
               THEN LET fr == [Top EXCEPT !.i = Top.i + 1]
                    IN  IF Len(stack) < RecursionLimit
                        THEN /\ stack' = Append(ReplaceTop(fr),
                                                [Frame("content_object", NoEntity, Top.i + 1, FALSE) EXCEPT !.hdr = token])
                             /\ UNCHANGED <<pc, exc, ret>>
                        ELSE CtlRaise("RecursionError")
               ELSE CtlReturn("list")

\* The first fragment after the i-th whose schema is the argument, 0 if none:
\*     for url in entity.metadata: if schema == entity.metadata[url]
NextMatch(md, schema, i) ==
    LET later == {j \in (i + 1)..Len(md) : md[j] = schema}
    IN  IF later = {} THEN 0 ELSE CHOOSE j \in later : \A k \in later : j <= k

\* delete_metadata(entity, schema): key is the schema, i the fragment the loop
\* has reached.  The recursive call after a 401 gets the same entity object.
delete_metadata ==
    /\ pc = "running"
    /\ Top.fn = "delete_metadata"
    /\ UNCHANGED <<call, client>>
    /\ LET j == NextMatch(Top.ent.md, Top.key, Top.i)
       IN  IF j = 0
           THEN /\ UNCHANGED <<token, tenant, log>>
                /\ CtlCall("tail", entity(Top.ent.type, Top.ent.ref))
           ELSE \E st \in StatusCodes :
                LET req == Http("DELETE", <<"fragment", j>>, Top.hdr, st)
                IN  IF st = no_content
                    THEN Answered(req) /\ CtlStep([Top EXCEPT !.i = j])
                    ELSE IF st = unauthorized
                    THEN Retry(req, Frame("delete_metadata", Top.ent, Top.key, Top.flag))
                    ELSE Answered(req) /\ CtlRaise("RuntimeError")

\* The identifiers the repository may list: the entity they belong to, their
\* type and their value; the k-th of a listing has the ApiId k.
Identifiers == [ref : {1, 2}, type : {1, 2}, value : {1, 2}]

\* The first identifier after the i-th that the loop of delete_identifiers
\* deletes, 0 if none: key is identifier_type and val identifier_value, 0
\* for None.
\*     if _ref == entity.reference and _type == identifier_type and _value == identifier_value
NextIdentifier(ids, ref, key, val, i) ==
    LET later == {j \in (i + 1)..Len(ids) :
                    /\ ids[j].ref = ref
                    /\ key # 0 => ids[j].type = key
                    /\ val # 0 => ids[j].value = val}
    IN  IF later = {} THEN 0 ELSE CHOOSE j \in later : \A k \in later : j <= k

\* delete_identifiers(entity, identifier_type, identifier_value): the url of
\* the first request reads entity._path, which no entity has, so the call
\* raises before the request.
delete_identifiers ==
    /\ pc = "running"
    /\ Top.fn = "delete_identifiers"
    /\ UNCHANGED <<call, client>>
    /\ IF "_path" \notin EntityAttrs
       THEN CtlRaise("AttributeError") /\ UNCHANGED <<token, tenant, log>>
       ELSE IF Top.pos = "start"
       THEN \E st \in StatusCodes, ids \in SeqsUpTo(Identifiers, MaxIdentifiers) :
            LET req == Http("GET", <<"identifiers", Top.ent.ref>>, Top.hdr, st)
            IN  IF st = ok
                THEN /\ Answered([req EXCEPT !.links = Len(ids), !.body = ids])
                     /\ CtlStep([Top EXCEPT !.pos = "loop", !.i = 0, !.list = ids])
                ELSE IF st = unauthorized
                THEN Retry(req, [Frame("delete_identifiers", Top.ent, Top.key, Top.flag)
                                    EXCEPT !.val = Top.val])
                ELSE Answered(req) /\ CtlRaise("RuntimeError")
       ELSE LET j == NextIdentifier(Top.list, Top.ent.ref, Top.key, Top.val, Top.i)
            IN  IF j = 0
                THEN CtlReturn("entity") /\ UNCHANGED <<token, tenant, log>>
                ELSE \E st \in StatusCodes :
                     LET req == Http("DELETE", <<"identifier", j>>, Top.hdr, st)
                     IN  IF st = unauthorized
                         THEN Retry(req, [Frame("delete_identifiers", Top.ent, Top.key, Top.flag)
                                             EXCEPT !.val = Top.val])
                         ELSE IF st = no_content
                         THEN Answered(req) /\ CtlStep([Top EXCEPT !.i = j])
                         ELSE Answered(req) /\ CtlReturn(None)

\* The progress status a 200 of the progress end point carries; None when the
\* answer holds no Status element.
ProgressStatus == {"ACTIVE", "COMPLETED", None}

\* security_tag_sync(entity, new_tag), key being new_tag: a fresh token first,
\* then the end point is built from entity._path, which no entity has, so
\* the call raises before the change request.  Behind it: the PUT, and on
\* 202 the loop that polls the progress end point (i counts the polls) with
\* the headers built before the PUT.
security_tag_sync ==
    /\ pc = "running"
    /\ Top.fn = "security_tag_sync"
    /\ UNCHANGED <<call, client>>
    /\ IF Top.pos = "start"
       THEN \E st \in StatusCodes :
            LET t == __token__(st)
            IN  /\ log' = log \o <<t>>
                /\ tenant' = TenantAfter(st)
                /\ IF st = ok
                   THEN /\ token' = t.ret
                        /\ IF "_path" \notin EntityAttrs
                           THEN CtlRaise("AttributeError")
                           ELSE CtlStep([Top EXCEPT !.pos = "put", !.hdr = t.ret])
                   ELSE token' = token /\ CtlRaise("RuntimeError")
       ELSE IF Top.pos = "put"
       THEN \E st \in StatusCodes :
            LET req == Http("PUT", <<"security-descriptor", Top.ent.ref>>, Top.hdr, st)
            IN  IF st = accepted
                THEN Answered(req) /\ CtlStep([Top EXCEPT !.pos = "poll", !.i = 0])
                ELSE IF st = unauthorized
                THEN Retry(req, Frame("security_tag_sync", Top.ent, Top.key, Top.flag))
                ELSE Answered(req) /\ CtlRaise("RuntimeError")
       ELSE /\ Top.i < MaxPolls
            /\ \E st \in StatusCodes, status \in ProgressStatus :
                LET req == [Http("GET", <<"progress", Top.ent.ref>>, Top.hdr, st)
                               EXCEPT !.body = IF st = ok THEN <<status>> ELSE <<>>]
                IN  /\ Answered(req)
                    /\ IF st = ok /\ status # None /\ status # "ACTIVE"
                       THEN CtlCall("tail", entity(Top.ent.type, Top.ent.ref))
                       ELSE CtlStep([Top EXCEPT !.i = Top.i + 1])

----------------------------------------------------------------------------
\* AuthenticatedAPI.security_tags_base(with_permissions): flag is with_permissions.

\* The condition under which security_tags_base refuses to call the server.
VersionGate ==
    (major_version < 7) /\ (minor_version < 4) /\ (patch_version < 1)

security_tags_base ==
    /\ pc = "running"
    /\ Top.fn = "security_tags_base"
    /\ UNCHANGED <<call, client>>
    /\ IF VersionGate
       THEN CtlRaise("RuntimeError") /\ UNCHANGED <<token, tenant, log>>
       ELSE \E st \in StatusCodes :
            LET req == Http("GET", <<"security/tags", 0>>, token, st)
            IN  IF st = ok
                THEN /\ Answered(req)
                     /\ IF sec_ns = Undefined
                        THEN CtlRaise("AttributeError")
                        ELSE IF Top.flag
                        THEN CtlReturn("dict name -> permissions")
                        ELSE CtlReturn("dict name -> name")
                ELSE IF st = unauthorized
                THEN Retry(req, Frame("security_tags_base", Top.ent, Top.key, FALSE))
                ELSE Answered(req) /\ CtlRaise("RuntimeError")

----------------------------------------------------------------------------
\* AuthenticatedAPI.__init__ and the methods it calls.

\* A credential is looked up in three places; each holds a value, the empty
\* string, or nothing (None: no argument, no environment variable, no key).
Sources(v) == {None, "", v}

Falsy(v) == v \in {None, ""}

\*     if not username:
\*         username = os.environ.get('PRESERVICA_USERNAME')
\*         if username is None:
\*             try: username = config['credentials']['username']
\*             except KeyError: pass
Resolve(arg, env, file) ==
    IF Falsy(arg)
    THEN IF env = None THEN file ELSE env
    ELSE arg

\* The versions the version endpoint reports.
MaxMinor == 4
MaxPatch == 1
Versions == {<<ma, mi, pa>> : ma \in {5, 6, 7}, mi \in 0..MaxMinor, pa \in 0..MaxPatch}

Unset == 0 - 1

NS_XIP_ROOT == "http://preservica.com/XIP/"
NS_ENTITY_ROOT == "http://preservica.com/EntityAPI/"
NS_SEC_ROOT == "http://preservica.com/SecurityAPI"
NS_XIP_V6 == "http://preservica.com/XIP/v6.0"
NS_ENTITY == "http://preservica.com/EntityAPI/v6.0"

InitFrame(p) == [Frame("__init__", NoEntity, 0, FALSE) EXCEPT !.pos = p]

\* __init__ up to self.username = username.
init_username ==
    /\ pc = "new"
    /\ \E arg \in Sources("user"), env \in Sources("user"), file \in Sources("user") :
        LET u == Resolve(arg, env, file)
        IN  /\ src' = <<arg, env, file>>
            /\ call' = InitFrame("username")
            /\ IF Falsy(u)
               THEN /\ pc' = "raised"
                    /\ exc' = "RuntimeError"
                    /\ UNCHANGED <<username, stack>>
               ELSE /\ username' = u
                    /\ stack' = <<InitFrame("password")>>
                    /\ pc' = "running"
                    /\ exc' = exc
    /\ UNCHANGED <<ret, token, tenant, shared_secret, password, server, major_version,
                   minor_version, patch_version, xip_ns, entity_ns, sec_ns, log>>

\* __init__ up to self.password = password.
init_password ==
    /\ pc = "running"
    /\ Top.fn = "__init__"
    /\ Top.pos = "password"
    /\ \E arg \in Sources("secret"), env \in Sources("secret"), file \in Sources("secret") :
        LET w == Resolve(arg, env, file)
        IN  /\ src' = <<arg, env, file>>
            /\ IF Falsy(w)
               THEN CtlRaise("RuntimeError") /\ UNCHANGED password
               ELSE password' = w /\ CtlStep([Top EXCEPT !.pos = "tenant"])
    /\ UNCHANGED <<call, token, tenant, shared_secret, username, server, major_version,
                   minor_version, patch_version, xip_ns, entity_ns, sec_ns, log>>

\* __init__ up to self.tenant = tenant: an empty tenant is only logged.
init_tenant ==
    /\ pc = "running"
    /\ Top.fn = "__init__"
    /\ Top.pos = "tenant"
    /\ \E arg \in Sources(ServerTenant), env \in Sources(ServerTenant), file \in Sources(ServerTenant) :
        /\ src' = <<arg, env, file>>
        /\ tenant' = Resolve(arg, env, file)
        /\ CtlStep([Top EXCEPT !.pos = "server"])
    /\ UNCHANGED <<call, token, shared_secret, username, password, server, major_version,
                   minor_version, patch_version, xip_ns, entity_ns, sec_ns, log>>

\* __init__ up to self.server = server.
init_server ==
    /\ pc = "running"
    /\ Top.fn = "__init__"
    /\ Top.pos = "server"
    /\ \E arg \in Sources("server"), env \in Sources("server"), file \in Sources("server") :
        LET v == Resolve(arg, env, file)
        IN  /\ src' = <<arg, env, file>>
            /\ IF Falsy(v)
               THEN CtlRaise("RuntimeError") /\ UNCHANGED server
               ELSE server' = v /\ CtlStep([Top EXCEPT !.pos = "token"])
    /\ UNCHANGED <<call, token, tenant, shared_secret, username, password, major_version,
                   minor_version, patch_version, xip_ns, entity_ns, sec_ns, log>>

\* self.token = self.__token__(), then the call of self.__version_number__().
\* The arguments and the configuration are not read again.
init_token ==
    /\ pc = "running"
    /\ Top.fn = "__init__"
    /\ Top.pos = "token"
    /\ src' = <<None, None, None>>
    /\ UNCHANGED <<call, shared_secret, username, password, server, major_version,
                   minor_version, patch_version, xip_ns, entity_ns, sec_ns>>
    /\ \E st \in StatusCodes :
        LET t == __token__(st)
        IN  /\ log' = log \o <<t>>
            /\ tenant' = TenantAfter(st)
            /\ IF st = ok
               THEN /\ token' = t.ret
                    /\ CtlCall("namespace",
                               [Frame("__version_number__", NoEntity, 0, FALSE) EXCEPT !.hdr = t.ret])
               ELSE /\ token' = token
                    /\ CtlRaise("RuntimeError")

\* __version_number__: any status but 200 and 401 builds a RuntimeError
\* without raising it, and the method returns None with no version set.
__version_number__ ==
    /\ pc = "running"
    /\ Top.fn = "__version_number__"
    /\ UNCHANGED <<call, shared_secret, username, password, server, src, xip_ns, entity_ns, sec_ns>>
    /\ \E st \in StatusCodes :
        LET req == Http("GET", <<"versiondetails/version", 0>>, Top.hdr, st)
        IN  IF st = ok
            THEN /\ Answered(req)
                 /\ \E v \in Versions :
                      /\ major_version' = v[1]
                      /\ minor_version' = v[2]
                      /\ patch_version' = v[3]
                 /\ CtlReturn("version")
            ELSE IF st = unauthorized
            THEN /\ UNCHANGED <<major_version, minor_version, patch_version>>
                 /\ Retry(req, Frame("__version_number__", Top.ent, Top.key, Top.flag))
            ELSE /\ UNCHANGED <<major_version, minor_version, patch_version>>
                 /\ Answered(req)
                 /\ CtlReturn(None)

\* __version_namespace__: the namespaces as <<xip_ns, entity_ns, sec_ns>>.
__version_namespace__ ==
    IF major_version = 6
    THEN IF minor_version < 2
         THEN <<NS_XIP_V6, NS_ENTITY, sec_ns>>
         ELSE <<NS_XIP_ROOT \o "v" \o ToString(major_version) \o "." \o ToString(minor_version),
                NS_ENTITY_ROOT \o "v" \o ToString(major_version) \o "." \o ToString(minor_version),
                NS_SEC_ROOT \o "/v" \o ToString(major_version) \o "." \o ToString(minor_version)>>
    ELSE <<xip_ns, entity_ns, sec_ns>>

\* self.version = ... (the value __version_number__ returned),
\* self.__version_namespace__(), then the call of self.__find_user_roles_().
init_namespace ==
    /\ pc = "running"
    /\ Top.fn = "__init__"
    /\ Top.pos = "namespace"
    /\ UNCHANGED <<call, token, tenant, shared_secret, username, password, server, src,
                   major_version, minor_version, patch_version, log>>
    /\ IF major_version = Unset
       THEN CtlRaise("AttributeError") /\ UNCHANGED <<xip_ns, entity_ns, sec_ns>>
       ELSE /\ xip_ns' = __version_namespace__[1]
            /\ entity_ns' = __version_namespace__[2]
            /\ sec_ns' = __version_namespace__[3]
            /\ CtlCall("debug", [Frame("__find_user_roles_", NoEntity, 0, FALSE) EXCEPT !.hdr = token])

\* __find_user_roles_: any status but 200 and 401 returns None.
__find_user_roles_ ==
    /\ pc = "running"
    /\ Top.fn = "__find_user_roles_"
    /\ UNCHANGED <<call, client>>
    /\ \E st \in StatusCodes :
        LET req == Http("GET", <<"user/details", 0>>, Top.hdr, st)
        IN  IF st = ok
            THEN Answered(req) /\ CtlReturn("roles")
            ELSE IF st = unauthorized
            THEN Retry(req, Frame("__find_user_roles_", Top.ent, Top.key, Top.flag))
            ELSE Answered(req) /\ CtlReturn(None)

init_debug_unchecked ==
    /\ pc = "running"
    /\ Top.fn = "__init__"
    /\ Top.pos = "debug"
    /\ UNCHANGED <<call, token, tenant, client, log, exc, ret>>
    /\ pc' = "idle"
    /\ stack' = <<>>

\* self.roles = ..., logger.debug(self.xip_ns), logger.debug(self.entity_ns):
\* the end of __init__.
init_debug ==
    /\ pc = "running"
    /\ Top.fn = "__init__"
    /\ Top.pos = "debug"
    /\ UNCHANGED <<call, token, tenant, client, log>>
    /\ IF xip_ns = Undefined \/ entity_ns = Undefined
       THEN CtlRaise("AttributeError")
       ELSE /\ pc' = "idle"
            /\ stack' = <<>>
            /\ UNCHANGED <<exc, ret>>

----------------------------------------------------------------------------
\* uploadAPI.py: the package builders.

\* The longest list of files handed to a package builder.
MaxFiles == 2

\* The files of the caller, <<name, extension>>; they exist on disk.
Files == {<<"a", "tif">>, <<"b", "jpg">>}

\* No file given (None).
NoFile == <<>>

FileLists == SeqsUpTo(Files, MaxFiles)

\* The directories that exist; tempfile.gettempdir() is one of them.
ExistingDirs == {"tmp", "out"}

gettempdir == "tmp"

isdir_any(p) == TRUE

\* os.path.isdir
isdir(p) == p \in ExistingDirs

\* The keyword arguments that choose the title and the description of the
\* content objects, each left out, given as a str or given as a dict keyed by
\* file.  The other keyword arguments are left out.
Absent == "Absent"
KwNames ==
    {"Preservation_Content_Title", "Preservation_Content_Description",
     "Access_Content_Title", "Access_Content_Description"}
Kwargs == [KwNames -> {Absent, "str", "dict"}]

\* A text of the manifest: the str given for keyword kw, the entry of file f
\* in the dict given for kw, or the name of a file without its extension.
StrArg(kw) == [kw |-> kw, name |-> None, ext |-> None]
DictArg(kw, f) == [kw |-> kw, name |-> f[1], ext |-> f[2]]

\* os.path.splitext(os.path.basename(f))[0]
splitext(f) == [kw |-> None, name |-> f[1], ext |-> None]

\* Element('XIP'): the manifest, as the sequences of its InformationObject,
\* Representation, ContentObject, Generation and Bitstream elements; uuid
\* counts the calls of uuid.uuid4(), whose values never repeat.
Element ==
    [io |-> <<>>, rep |-> <<>>, co |-> <<>>, gen |-> <<>>, bit |-> <<>>, uuid |-> 0]

__create_io___twice(xip, file_name, parent_folder) ==
    LET io == [ref |-> xip.uuid + 1, title |-> file_name, description |-> file_name,
               parent |-> parent_folder]
    IN  [xip EXCEPT !.io = @ \o <<io, io>>, !.uuid = @ + 1]

\* __create_io__ without Title, Description and IO_Identifier_callback; the
\* reference of the asset is xip.io[Len(xip.io)].ref.
__create_io__(xip, file_name, parent_folder) ==
    [xip EXCEPT !.io = Append(@, [ref |-> xip.uuid + 1, title |-> file_name,
                                  description |-> file_name, parent |-> parent_folder]),
                !.uuid = @ + 1]

__make_representation_multiple_co___one_ref(xip, rep_name, rep_type, rep_files, io_ref) ==
    [xip EXCEPT !.rep = Append(@, [io |-> io_ref, name |-> rep_name, type |-> rep_type,
                                   cos |-> [k \in 1..Len(rep_files) |-> xip.uuid + 1]]),
                !.uuid = @ + Len(rep_files)]

\* One ContentObject element with a fresh uuid per file of rep_files.
__make_representation_multiple_co__(xip, rep_name, rep_type, rep_files, io_ref) ==
    [xip EXCEPT !.rep = Append(@, [io |-> io_ref, name |-> rep_name, type |-> rep_type,
                                   cos |-> [k \in 1..Len(rep_files) |-> xip.uuid + k]]),
                !.uuid = @ + Len(rep_files)]

\* refs_dict.items() of the call above, in insertion order: <<ref, file>>.
refs_dict(xip, rep_files) == [k \in 1..Len(rep_files) |-> <<xip.uuid + k, rep_files[k]>>]

__make_content_objects__(xip, content_title, co_ref, io_ref, content_description) ==
    [xip EXCEPT !.co = Append(@, [ref |-> co_ref, title |-> content_title,
                                  description |-> content_description, parent |-> io_ref])]

__make_generation__(xip, filename, co_ref) ==
    [xip EXCEPT !.gen = Append(@, [co |-> co_ref, label |-> splitext(filename),
                                   bitstreams |-> <<filename>>])]

__make_bitstream__(xip, file_name) ==
    [xip EXCEPT !.bit = Append(@, [filename |-> file_name])]

\* kwargs.get(kw, default), and then the entry of the file when it is a dict.
ContentText(kwargs, kw, f) ==
    IF kwargs[kw] = Absent THEN splitext(f)
    ELSE IF kwargs[kw] = "str" THEN StrArg(kw)
    ELSE DictArg(kw, f)

\* An effect on the local file system.
Fs(op, path, data) ==
    [kind |-> "fs", fn |-> Top.fn, op |-> op, path |-> path, data |-> data]

\* The end of complex_asset_package and generic_asset_package: the folders
\* export_folder/io_ref/io_ref/content, metadata.xml, a copy of every file,
\* the archive and the removal of the folders.
WritePackage(export_folder, io_ref, xip, files, compress) ==
    <<Fs("mkdir", <<export_folder, io_ref>>, Element),
      Fs("mkdir", <<export_folder, io_ref, io_ref>>, Element),
      Fs("mkdir", <<export_folder, io_ref, io_ref, "content">>, Element),
      Fs("write", <<export_folder, io_ref, io_ref, "metadata.xml">>, xip)>>
    \o [k \in 1..Len(files) |-> Fs("copyfile", <<export_folder, io_ref, io_ref, "content", files[k]>>, Element)]
    \o <<Fs(IF compress THEN "zip" ELSE "szip", <<export_folder, io_ref>>, Element),
         Fs("rmtree", <<export_folder, io_ref>>, Element)>>

\* The loops over refs_dict.items() that add the content object, the
\* generation and the bitstream of every file; an item is <<ref, file, title,
\* description>>.  The manifest keeps the elements of one kind in the order
\* of the loops.
RECURSIVE PackageItems(_, _, _)
PackageItems(xip, items, io_ref) ==
    IF items = <<>> THEN xip
    ELSE LET it == items[1]
             x1 == __make_content_objects__(xip, it[3], it[1], io_ref, it[4])
             x2 == __make_generation__(x1, it[2], it[1])
             x3 == __make_bitstream__(x2, it[2])
         IN  PackageItems(x3, Tail(items), io_ref)

\* The items of complex_asset_package: title and description are
\* kwargs.get(kw, default), and the entry of the file when that is a dict.
ComplexItems(refs, kwargs, title, description) ==
    [k \in 1..Len(refs) |->
        <<refs[k][1], refs[k][2], ContentText(kwargs, title, refs[k][2]),
          ContentText(kwargs, description, refs[k][2])>>]

\* export_folder after the first statement of every builder.
ExportFolder(export_folder) ==
    IF export_folder = None THEN gettempdir ELSE export_folder

\* The arguments of a call of a builder are in the field val of its frame and
\* compress is its flag.
PackageFrame(f, args, compress) ==
    [Frame(f, NoEntity, 0, compress) EXCEPT !.val = args]

\* complex_asset_package(preservation_files_list, access_files_list,
\* export_folder, parent_folder, compress, **kwargs).  With a dict as
\* Access_Content_Description the loop over the access files indexes
\* access_content_title, by then a str, with the file name.
complex_asset_package ==
    /\ pc = "running"
    /\ Top.fn = "complex_asset_package"
    /\ UNCHANGED <<call, token, tenant, client>>
    /\ LET a == Top.val
           export_folder == ExportFolder(a.export_folder)
           has_preservation_files == Len(a.preservation_files_list) > 0
           has_access_files == Len(a.access_files_list) > 0
           default_asset_title ==
               splitext(IF has_preservation_files THEN a.preservation_files_list[1]
                        ELSE a.access_files_list[1])
           x0 == __create_io__(Element, default_asset_title, a.parent_folder)
           io_ref == x0.io[Len(x0.io)].ref
           x1 == IF has_preservation_files
                 THEN __make_representation_multiple_co__(x0, "Preservation", "Preservation",
                                                          a.preservation_files_list, io_ref)
                 ELSE x0
           preservation_refs_dict ==
               IF has_preservation_files THEN refs_dict(x0, a.preservation_files_list) ELSE <<>>
           x2 == IF has_access_files
                 THEN __make_representation_multiple_co__(x1, "Access", "Access",
                                                          a.access_files_list, io_ref)
                 ELSE x1
           access_refs_dict ==
               IF has_access_files THEN refs_dict(x1, a.access_files_list) ELSE <<>>
           x3 == PackageItems(x2, ComplexItems(preservation_refs_dict, a.kwargs,
                                               "Preservation_Content_Title",
                                               "Preservation_Content_Description"), io_ref)
           x4 == PackageItems(x3, ComplexItems(access_refs_dict, a.kwargs,
                                               "Access_Content_Title",
                                               "Access_Content_Description"), io_ref)
       IN  IF ~isdir(export_folder)
           THEN log' = log /\ CtlRaise("RuntimeError")
           ELSE IF a.parent_folder = None
           THEN log' = log /\ CtlRaise("RuntimeError")
           ELSE IF ~has_preservation_files /\ ~has_access_files
           THEN log' = log /\ CtlReturn(None)
           ELSE IF has_access_files /\ a.kwargs["Access_Content_Description"] = "dict"
           THEN log' = log /\ CtlRaise("TypeError")
           ELSE /\ log' = log \o WritePackage(export_folder, io_ref, x4,
                                              a.preservation_files_list \o a.access_files_list,
                                              Top.flag)
                /\ CtlReturn(export_folder \o "/" \o ToString(io_ref) \o ".zip")

\* simple_asset_package(preservation_file, access_file, export_folder,
\* parent_folder, compress, **kwargs)
simple_asset_package ==
    /\ pc = "running"
    /\ Top.fn = "simple_asset_package"
    /\ UNCHANGED <<call, token, tenant, client, log>>
    /\ LET a == Top.val
           export_folder == ExportFolder(a.export_folder)
       IN  IF ~isdir(export_folder)
           THEN CtlRaise("RuntimeError")
           ELSE IF a.parent_folder = None
           THEN CtlRaise("RuntimeError")
           ELSE CtlCall("tail",
                    PackageFrame("complex_asset_package",
                        [preservation_files_list |->
                            IF a.preservation_file # NoFile THEN <<a.preservation_file>> ELSE <<>>,
                         access_files_list |->
                            IF a.access_file # NoFile THEN <<a.access_file>> ELSE <<>>,
                         export_folder |-> export_folder,
                         parent_folder |-> a.parent_folder,
                         kwargs |-> a.kwargs],
                        Top.flag))

\* The representations of generic_asset_package, one per key of the dict, a
\* dict being the sequence of its <<representation name, files>>.
RECURSIVE GenericRepresentations(_, _, _, _)
GenericRepresentations(xip, files_dict, rep_type, io_ref) ==
    IF files_dict = <<>> THEN xip
    ELSE GenericRepresentations(
            __make_representation_multiple_co__(xip, files_dict[1][1], rep_type,
                                                files_dict[1][2], io_ref),
            Tail(files_dict), rep_type, io_ref)

\* The items of every refs_dict made above, in the order of the keys.
RECURSIVE GenericRefs(_, _)
GenericRefs(xip, files_dict) ==
    IF files_dict = <<>> THEN <<>>
    ELSE refs_dict(xip, files_dict[1][2])
         \o GenericRefs([xip EXCEPT !.uuid = @ + Len(files_dict[1][2])], Tail(files_dict))

\* The items of generic_asset_package: a dict given as title or description
\* is asked for its entry "filename", which a dict keyed by file has not, so
\* the default is taken.
GenericText(kwargs, kw, f) ==
    IF kwargs[kw] = "str" THEN StrArg(kw) ELSE splitext(f)

GenericItems(refs, kwargs, title, description) ==
    [k \in 1..Len(refs) |->
        <<refs[k][1], refs[k][2], GenericText(kwargs, title, refs[k][2]),
          GenericText(kwargs, description, refs[k][2])>>]

\* The files of refs, in order.
FilesOf(refs) == [k \in 1..Len(refs) |-> refs[k][2]]

\* generic_asset_package(preservation_files_dict, access_files_dict,
\* export_folder, parent_folder, compress, **kwargs).  The default title is
\* the first file of the first representation (IndexError when it has none);
\* with a dict as Access_Content_Description the loop over the access files
\* calls get on access_content_title, by then a str.
generic_asset_package ==
    /\ pc = "running"
    /\ Top.fn = "generic_asset_package"
    /\ UNCHANGED <<call, token, tenant, client>>
    /\ LET a == Top.val
           export_folder == ExportFolder(a.export_folder)
           has_preservation_files == Len(a.preservation_files_dict) > 0
           has_access_files == Len(a.access_files_dict) > 0
           first == IF has_preservation_files THEN a.preservation_files_dict[1][2]
                    ELSE a.access_files_dict[1][2]
           x0 == __create_io__(Element, splitext(first[1]), a.parent_folder)
           io_ref == x0.io[Len(x0.io)].ref
           x1 == GenericRepresentations(x0, a.preservation_files_dict, "Preservation", io_ref)
           preservation_refs == GenericRefs(x0, a.preservation_files_dict)
           x2 == GenericRepresentations(x1, a.access_files_dict, "Access", io_ref)
           access_refs == GenericRefs(x1, a.access_files_dict)
           x3 == PackageItems(x2, GenericItems(preservation_refs, a.kwargs,
                                               "Preservation_Content_Title",
                                               "Preservation_Content_Description"), io_ref)
           x4 == PackageItems(x3, GenericItems(access_refs, a.kwargs,
                                               "Access_Content_Title",
                                               "Access_Content_Description"), io_ref)
       IN  IF ~isdir(export_folder)
           THEN log' = log /\ CtlRaise("RuntimeError")
           ELSE IF a.parent_folder = None
           THEN log' = log /\ CtlRaise("RuntimeError")
           ELSE IF ~has_preservation_files /\ ~has_access_files
           THEN log' = log /\ CtlReturn(None)
           ELSE IF first = <<>>
           THEN log' = log /\ CtlRaise("IndexError")
           ELSE IF access_refs # <<>> /\ a.kwargs["Access_Content_Description"] = "dict"
           THEN log' = log /\ CtlRaise("AttributeError")
           ELSE /\ log' = log \o WritePackage(export_folder, io_ref, x4,
                                              FilesOf(preservation_refs) \o FilesOf(access_refs),
                                              Top.flag)
                /\ CtlReturn(export_folder \o "/" \o ToString(io_ref) \o ".zip")

\* The loop of multi_asset_package: one asset per file, with one
\* Preservation representation of one content object.
RECURSIVE MultiAssets(_, _, _)
MultiAssets(xip, asset_file_list, parent_folder) ==
    IF asset_file_list = <<>> THEN xip
    ELSE LET file == asset_file_list[1]
             x1 == __create_io__(xip, splitext(file), parent_folder)
             io_ref == x1.io[Len(x1.io)].ref
             x2 == __make_representation_multiple_co__(x1, "Preservation", "Preservation",
                                                       <<file>>, io_ref)
             content_object_ref == x2.uuid
             x3 == __make_content_objects__(x2, splitext(file), content_object_ref, io_ref,
                                            splitext(file))
             x4 == __make_generation__(x3, file, content_object_ref)
             x5 == __make_bitstream__(x4, file)
         IN  MultiAssets(x5, Tail(asset_file_list), parent_folder)

\* multi_asset_package(asset_file_list, export_folder, parent_folder,
\* compress, **kwargs): the folders are made before the loop and every file is
\* copied inside it.
multi_asset_package ==
    /\ pc = "running"
    /\ Top.fn = "multi_asset_package"
    /\ UNCHANGED <<call, token, tenant, client>>
    /\ LET a == Top.val
           export_folder == ExportFolder(a.export_folder)
           package_id == Element.uuid + 1
           xip == MultiAssets([Element EXCEPT !.uuid = package_id], a.asset_file_list,
                              a.parent_folder)
       IN  IF ~isdir(export_folder)
           THEN log' = log /\ CtlRaise("RuntimeError")
           ELSE IF a.parent_folder = None
           THEN log' = log /\ CtlRaise("RuntimeError")
           ELSE /\ log' = log
                    \o <<Fs("mkdir", <<export_folder, package_id>>, Element),
                         Fs("mkdir", <<export_folder, package_id, package_id>>, Element),
                         Fs("mkdir", <<export_folder, package_id, package_id, "content">>, Element)>>
                    \o [k \in 1..Len(a.asset_file_list) |->
                          Fs("copyfile", <<export_folder, package_id, package_id, "content",
                                           a.asset_file_list[k]>>, Element)]
                    \o <<Fs("write", <<export_folder, package_id, package_id, "metadata.xml">>, xip),
                         Fs(IF Top.flag THEN "zip" ELSE "szip", <<export_folder, package_id>>, Element),
                         Fs("rmtree", <<export_folder, package_id>>, Element)>>
                /\ CtlReturn(export_folder \o "/" \o ToString(package_id) \o ".zip")

----------------------------------------------------------------------------
\* The call.

Calls ==
    {Frame(f, NoEntity, 1, FALSE) :
        f \in {"asset", "folder", "content_object", "metadata", "bitstream", "generation",
               "content_objects"}}
    \cup {Frame("children", [type |-> "SO", ref |-> r, md |-> <<>>], k, FALSE) : r \in {0, 1}, k \in {0, 1}}
    \cup {Frame(f, [type |-> t, ref |-> 1, md |-> <<>>], 0, FALSE) :
            f \in {"save", "add_identifier"}, t \in EntityTypes}
    \cup {Frame("generations", [type |-> "CO", ref |-> 1, md |-> <<>>], 0, FALSE)}
    \cup {Frame("delete_metadata", e, sc, FALSE) : e \in Entities, sc \in Schemas}
    \cup {Frame(f, [type |-> t, ref |-> 1, md |-> <<>>], 1, FALSE) :
            f \in {"delete_identifiers", "security_tag_sync"}, t \in EntityTypes}
    \cup {Frame("security_tags_base", NoEntity, 0, fl) : fl \in BOOLEAN}
    \cup {Frame("move", [type |-> t, ref |-> 1, md |-> <<>>], k, FALSE) : t \in EntityTypes, k \in {0, 2}}
    \cup {Frame(f, [type |-> "SO", ref |-> r, md |-> <<>>], 0, FALSE) :
            f \in {"children_items", "descendants"}, r \in {0, 1}}
    \cup {Frame("updated_entities", NoEntity, 0, FALSE)}

\* A method of the constructed client is called.
InvokeOf(calls) ==
    /\ pc = "idle"
    /\ \E c \in calls :
        /\ call' = c
        /\ stack' = <<[c EXCEPT !.hdr = token]>>
    /\ pc' = "running"
    /\ log' = <<>>
    /\ UNCHANGED <<exc, ret, token, tenant, client>>

Invoke == InvokeOf(Calls)

Init ==
    /\ pc = "idle"
    /\ exc = None
    /\ ret = [value |-> None, page |-> NoPage]
    /\ call = Frame("none", NoEntity, 0, FALSE)
    /\ stack = <<>>
    /\ token = 1
    /\ shared_secret \in BOOLEAN
    /\ tenant \in IF shared_secret THEN {None, ServerTenant} ELSE {ServerTenant}
    /\ username = "user"
    /\ password = "secret"
    /\ server = "server"
    /\ src = <<None, None, None>>
    /\ major_version = 6
    /\ minor_version = 4
    /\ patch_version = 0
    /\ xip_ns = "http://preservica.com/XIP/v6.4"
    /\ entity_ns = "http://preservica.com/EntityAPI/v6.4"
    /\ sec_ns = "http://preservica.com/SecurityAPI/v6.4"
    /\ log = <<>>

Next ==
    \/ Invoke
    \/ asset
    \/ folder
    \/ content_object
    \/ metadata
    \/ children
    \/ bitstream
    \/ save
    \/ move
    \/ add_identifier
    \/ generation
    \/ generations
    \/ content_objects
    \/ delete_metadata
    \/ delete_identifiers
    \/ security_tag_sync
    \/ security_tags_base
    \/ descendants
    \/ children_items
    \/ _updated_entities_page
    \/ updated_entities

Spec == Init /\ [][Next]_vars

\* The client before its construction, called with use_shared_secret.
InitNew ==
    /\ pc = "new"
    /\ exc = None
    /\ ret = [value |-> None, page |-> NoPage]
    /\ call = Frame("none", NoEntity, 0, FALSE)
    /\ stack = <<>>
    /\ token = 0
    /\ tenant = Undefined
    /\ shared_secret \in BOOLEAN
    /\ username = Undefined
    /\ password = Undefined
    /\ server = Undefined
    /\ src = <<None, None, None>>
    /\ major_version = Unset
    /\ minor_version = Unset
    /\ patch_version = Unset
    /\ xip_ns = Undefined
    /\ entity_ns = Undefined
    /\ sec_ns = Undefined
    /\ log = <<>>

TagCalls == {Frame("security_tags_base", NoEntity, 0, fl) : fl \in BOOLEAN}

InvokeTags == InvokeOf(TagCalls)

NextConstruct ==
    \/ init_username
    \/ init_password
    \/ init_tenant
    \/ init_server
    \/ init_token
    \/ __version_number__
    \/ init_namespace
    \/ __find_user_roles_
    \/ init_debug
    \/ InvokeTags
    \/ security_tags_base

SpecConstruct == InitNew /\ [][NextConstruct]_vars

----------------------------------------------------------------------------
\* uploadAPI.py: the upload of a package.

\* The names bound at module level in uploadAPI.py: its own imports and
\* definitions and the public module-level names of common.py.  Path, which
\* upload_zip_package_to_S3 uses, is not among them.
UploadModuleNames ==
    {"base64", "csv", "shutil", "tempfile", "uuid", "xml", "datetime", "sleep", "minidom",
     "ElementTree", "Element", "SubElement", "boto3", "cryptography", "s3transfer",
     "TransferConfig", "S3Transfer", "Config", "ClientError", "Cipher", "algorithms", "modes",
     "HTTPBasicAuth", "S3UploadFailedError", "tqdm", "logger", "MB", "GB", "transfer_config",
     "upload_file", "PutObjectTask", "CompleteMultipartUploadTask", "prettify",
     "generic_asset_package", "multi_asset_package", "complex_asset_package",
     "simple_asset_package", "upload_config", "UploadAPI", "configparser", "hashlib", "json",
     "logging", "os", "re", "sys", "threading", "time", "unicodedata", "Enum", "requests",
     "pyPreservica", "Sha1FixityCallBack", "AuthenticatedAPI"}

\* The packages on the local disk.
LocalPackages == {"package.zip"}

\* An upload of the package at path, which completed or raised.
Upload(path, done) ==
    [kind |-> "upload", fn |-> Top.fn, op |-> "upload_file", path |-> path, data |-> done]

DeleteAfterUpload_first(path, done, delete_after_upload) ==
    (IF delete_after_upload THEN <<Fs("remove", path, Element)>> ELSE <<>>)
    \o <<Upload(path, done)>>

\* upload_file(...) and the statement behind it:
\*     if delete_after_upload: os.remove(path_to_zip_package)
DeleteAfterUpload(path, done, delete_after_upload) ==
    <<Upload(path, done)>>
    \o (IF done /\ delete_after_upload THEN <<Fs("remove", path, Element)>> ELSE <<>>)

\* upload_zip_package(path_to_zip_package, delete_after_upload), key being the
\* path and flag delete_after_upload: the bucket is named after self.tenant,
\* a fresh token is the access key, and a path that is no file uploads
\* nothing.
upload_zip_package ==
    /\ pc = "running"
    /\ Top.fn = "upload_zip_package"
    /\ UNCHANGED <<call, client>>
    /\ IF Top.pos = "start"
       THEN IF tenant = None
            THEN CtlRaise("AttributeError") /\ UNCHANGED <<token, tenant, log>>
            ELSE \E st \in StatusCodes :
                 LET t == __token__(st)
                 IN  /\ log' = log \o <<t>>
                     /\ tenant' = TenantAfter(st)
                     /\ IF st = ok
                        THEN token' = t.ret /\ CtlStep([Top EXCEPT !.pos = "upload", !.hdr = t.ret])
                        ELSE token' = token /\ CtlRaise("RuntimeError")
       ELSE /\ UNCHANGED <<token, tenant>>
            /\ IF Top.key \in LocalPackages
               THEN \E done \in BOOLEAN :
                    /\ log' = log \o DeleteAfterUpload(Top.key, done, Top.flag)
                    /\ IF done
                       THEN CtlReturn("preservica-progress-token")
                       ELSE CtlRaise("S3UploadFailedError")
               ELSE log' = log /\ CtlReturn(None)

\* upload_zip_package_to_S3(path_to_zip_package, bucket_name,
\* delete_after_upload): the upload location is asked for with basic
\* authentication; the size of the package is read through Path.
upload_zip_package_to_S3 ==
    /\ pc = "running"
    /\ Top.fn = "upload_zip_package_to_S3"
    /\ UNCHANGED <<call, client, token, tenant>>
    /\ \E st \in StatusCodes :
        LET req == Http("GET", <<"admin/locations/upload", 0>>, 0, st)
        IN  IF st # ok
            THEN log' = log \o <<req>> /\ CtlRaise("SystemError")
            ELSE IF "Path" \notin UploadModuleNames
            THEN log' = log \o <<req>> /\ CtlRaise("NameError")
            ELSE IF Top.key \notin LocalPackages
            THEN log' = log \o <<req>> /\ CtlRaise("FileNotFoundError")
            ELSE \E done \in BOOLEAN :
                 /\ log' = log \o <<req>> \o DeleteAfterUpload(Top.key, done, Top.flag)
                 /\ IF done THEN CtlReturn(None) ELSE CtlRaise("S3UploadFailedError")

----------------------------------------------------------------------------
\* The calls of uploadAPI.py.

ExportFolders == {None, "out", "missing"}
ParentFolders == {None, "parent"}

\* simple_asset_package documents its titles and descriptions as str.
SimpleKwargs == [KwNames -> {Absent, "str"}]
NoKwargs == [kw \in KwNames |-> Absent]

\* A dict of representations: empty, or one representation and its files.
FileDicts == {<<>>} \cup {<<<<"representation", l>>>> : l \in FileLists}

\* The same, and the dicts of two representations of the same files.
PreservationDicts ==
    FileDicts
    \cup {<<<<"representation", l>>, <<"second", l>>>> : l \in FileLists \ {<<>>}}

\* A builder is called.
InvokePackage ==
    /\ pc = "idle"
    /\ \/ \E p \in Files \cup {NoFile}, a \in Files \cup {NoFile}, e \in ExportFolders,
             f \in ParentFolders, kw \in SimpleKwargs, c \in BOOLEAN :
             InvokeOf({PackageFrame("simple_asset_package",
                           [preservation_file |-> p, access_file |-> a, export_folder |-> e,
                            parent_folder |-> f, kwargs |-> kw], c)})
       \/ \E p \in FileLists, a \in FileLists, e \in ExportFolders,
             f \in ParentFolders, kw \in Kwargs, c \in BOOLEAN :
             InvokeOf({PackageFrame("complex_asset_package",
                           [preservation_files_list |-> p, access_files_list |-> a,
                            export_folder |-> e, parent_folder |-> f, kwargs |-> kw], c)})
       \/ \E p \in PreservationDicts, a \in FileDicts, e \in ExportFolders,
             f \in ParentFolders, kw \in Kwargs, c \in BOOLEAN :
             InvokeOf({PackageFrame("generic_asset_package",
                           [preservation_files_dict |-> p, access_files_dict |-> a,
                            export_folder |-> e, parent_folder |-> f, kwargs |-> kw], c)})
       \/ \E l \in FileLists, e \in ExportFolders, f \in ParentFolders, c \in BOOLEAN :
             InvokeOf({PackageFrame("multi_asset_package",
                           [asset_file_list |-> l, export_folder |-> e, parent_folder |-> f,
                            kwargs |-> NoKwargs], c)})

NextPackage ==
    \/ InvokePackage
    \/ simple_asset_package
    \/ complex_asset_package
    \/ generic_asset_package
    \/ multi_asset_package

\* The builders are functions of the module: they run beside a client and
\* read nothing of it.
InitPackage == Init /\ shared_secret = FALSE

SpecPackage == InitPackage /\ [][NextPackage]_vars

\* The uploads are methods of the client.
UploadCalls ==
    {Frame(f, NoEntity, p, d) :
        f \in {"upload_zip_package", "upload_zip_package_to_S3"},
        p \in {"package.zip", "missing.zip"}, d \in BOOLEAN}

InvokeUpload == InvokeOf(UploadCalls)

NextUpload ==
    \/ InvokeUpload
    \/ upload_zip_package
    \/ upload_zip_package_to_S3

SpecUpload == Init /\ [][NextUpload]_vars

\* The scheduler of a synchronous client: a call in progress takes its next
\* step, and every request sent is answered.
FairSpec == Spec /\ WF_vars(Next)

----------------------------------------------------------------------------
\* What the claims speak about.

Ended == pc \in {"returned", "raised"}

HttpIdx == {j \in 1..Len(log) : log[j].kind = "http"}

TokenIdx == {j \in 1..Len(log) : log[j].kind = "token"}

No401 == \A j \in HttpIdx : log[j].status # unauthorized

\* The operations of EntityAPI that hold no loop.
PlainOps ==
    {"asset", "folder", "content_object", "children", "metadata", "save", "move",
     "add_identifier"}

----------------------------------------------------------------------------
\* C1: within one call of a plain EntityAPI operation the client refreshes
\* the token at most once and sends the operation's request at most twice
\* (the request and one retry), whatever the server answers.
C1_RetriedOnce ==
    call.fn \in PlainOps =>
        /\ Cardinality(TokenIdx) <= 1
        /\ Cardinality({j \in HttpIdx : log[j].fn = call.fn}) <= 2

----------------------------------------------------------------------------
\* C2: every call of a plain EntityAPI operation terminates, by returning or
\* by raising, whatever the server answers: while such a call runs it can
\* take a step, every step that does not end it adds a frame, the
\* interpreter allows RecursionLimit frames, and so the call ends.
C2_PlainCallsTerminate ==
    /\ [](pc = "running" /\ call.fn \in PlainOps =>
            ENABLED Next /\ Len(stack) <= RecursionLimit)
    /\ [][pc = "running" /\ call.fn \in PlainOps /\ pc' = "running" =>
            Len(stack') = Len(stack) + 1]_vars
    /\ (pc = "running" /\ call.fn \in PlainOps) ~> Ended

\* The server answers 401 to every request of an asset call and 200 to
\* every token request; the call has ended with a RecursionError.
C2_Witness ==
    /\ call.fn = "asset"
    /\ pc = "raised"
    /\ exc = "RecursionError"
    /\ \A j \in HttpIdx : log[j].status = unauthorized
    /\ \A j \in TokenIdx : log[j].status = ok
    /\ Cardinality(HttpIdx) = RecursionLimit

----------------------------------------------------------------------------
SingleOps == {"asset", "folder", "content_object", "metadata", "children", "bitstream"}

\* The operations that send one request and then one call per link.
ListingOps == {"generation", "generations", "content_objects"}

\* The operations that raise before their first request to the repository.
NoRequestOps == {"save", "add_identifier", "move", "delete_identifiers", "security_tag_sync"}

\* The links the first j answers of the log hold.
RECURSIVE LinksUpTo(_)
LinksUpTo(j) == IF j = 0 THEN 0 ELSE LinksUpTo(j - 1) + log[j].links

Matching == {j \in 1..Len(call.ent.md) : call.ent.md[j] = call.key}

Deletes == {j \in HttpIdx : log[j].method = "DELETE"}

Gets == {j \in HttpIdx : log[j].method = "GET"}

----------------------------------------------------------------------------
\* C4: whenever a request was answered 401 and the refresh that followed was
\* answered 200, the next request carries the token that refresh returned,
\* not the rejected one, and belongs to a call of the same operation with
\* the same arguments.
C4_RetryKeepsArguments ==
    \A j \in HttpIdx :
        (/\ j + 2 <= Len(log)
         /\ log[j].status = unauthorized
         /\ log[j + 1].kind = "token"
         /\ log[j + 1].status = ok) =>
            /\ log[j + 2].tok = log[j + 1].ret
            /\ log[j + 2].tok # log[j].tok
            /\ log[j + 2].fn = log[j].fn
            /\ log[j + 2].ent = log[j].ent
            /\ log[j + 2].key = log[j].key
            /\ log[j + 2].flag = log[j].flag

\* The server answers 401 to security_tags_base(with_permissions=True) and
\* 200 to the refresh; the request sent next is of the call with
\* with_permissions=False.
C4_Witness ==
    /\ call.fn = "security_tags_base"
    /\ call.flag
    /\ Len(log) = 3
    /\ log[1].status = unauthorized
    /\ log[2].kind = "token" /\ log[2].status = ok
    /\ log[3].kind = "http" /\ log[3].flag = FALSE

----------------------------------------------------------------------------
FailedRefresh(l) == {j \in 1..Len(l) : l[j].kind = "token" /\ l[j].status # ok}

\* C5: a refresh the token endpoint answers with a status other than 200 is
\* the last request of the call, which has ended by raising RuntimeError,
\* and the step that sent it leaves the stored token as it was.
C5_FailedRefreshRaises ==
    /\ [](\A j \in FailedRefresh(log) :
            j = Len(log) /\ pc = "raised" /\ exc = "RuntimeError")
    /\ [][FailedRefresh(log') # {} /\ log' # log => token' = token]_vars

\* folder was answered 401 and the refresh 500: the call has raised and the
\* token is the one the client started with.
C5_Witness ==
    /\ call.fn = "folder"
    /\ pc = "raised"
    /\ exc = "RuntimeError"
    /\ Len(log) = 2
    /\ log[1].status = unauthorized
    /\ log[2].kind = "token" /\ log[2].status = server_error
    /\ token = 1

----------------------------------------------------------------------------
\* The keys and the values of a form body <<key, value, key, value, ...>>.
Keys(body) == {body[k] : k \in {k \in 1..Len(body) : k % 2 = 1}}

Values(body) == {body[k] : k \in {k \in 1..Len(body) : k % 2 = 0}}

\* C6: every token request is the one of the mode chosen at construction: a
\* login request whose body holds the password in password mode, an
\* acquire-external request whose body holds username, tenant, timestamp
\* and hash and nowhere the secret in shared-secret mode; a step that
\* invokes __token__ sends exactly one token request; and the mode never
\* changes.
C6_TokenRequestByMode ==
    /\ [](\A j \in TokenIdx :
            IF shared_secret
            THEN /\ log[j].url[1] = "accesstoken/acquire-external"
                 /\ Keys(log[j].body) = {"username", "tenant", "timestamp", "hash"}
                 /\ password \notin Values(log[j].body)
            ELSE /\ log[j].url[1] = "accesstoken/login"
                 /\ "password" \in Keys(log[j].body)
                 /\ password \in Values(log[j].body))
    /\ [][shared_secret' = shared_secret]_vars
    /\ [][log' # log /\ log' # <<>> =>
            /\ Cardinality(TokenIdx') <= Cardinality(TokenIdx) + 1
            /\ token' # token => Cardinality(TokenIdx') = Cardinality(TokenIdx) + 1]_vars

\* A client in shared-secret mode has sent an acquire-external request that
\* was answered 200.
C6_Witness ==
    /\ shared_secret
    /\ \E j \in TokenIdx :
         /\ log[j].status = ok
         /\ log[j].url[1] = "accesstoken/acquire-external"
         /\ "hash" \in Keys(log[j].body)

----------------------------------------------------------------------------
Constructed == pc = "idle" \/ call.fn = "security_tags_base"

\* C7: once the constructor has completed without raising, xip_ns and
\* entity_ns are defined, whatever version the server reported.
C7_NamespacesDefined ==
    Constructed => xip_ns # Undefined /\ entity_ns # Undefined

\* The constructor has completed against a server that reported 6.0.x.
C7_Witness ==
    /\ pc = "idle"
    /\ major_version = 6
    /\ minor_version = 0
    /\ xip_ns = NS_XIP_V6
    /\ entity_ns = NS_ENTITY

----------------------------------------------------------------------------
\* C8: the constructor raises for a missing credential exactly when none of
\* argument, environment variable and file holds a non-empty value for it:
\* when it has raised before any request, it raised RuntimeError and the
\* three sources of the credential it was resolving are empty; when it has
\* gone past a credential, one of the three sources held a value.
C8_RaisesIffNoSource ==
    /\ (call.fn = "__init__" /\ pc = "raised" /\ log = <<>>) =>
            /\ exc = "RuntimeError"
            /\ \A k \in 1..3 : Falsy(src[k])
    /\ (call.fn = "__init__" /\ pc = "running" /\ Top.fn = "__init__"
            /\ Top.pos \in {"password", "tenant", "token"}) =>
            \/ Top.pos = "tenant"
            \/ \E k \in 1..3 : ~Falsy(src[k])

\* No argument, PRESERVICA_USERNAME set to the empty string, and a username
\* in credentials.properties: the constructor has raised.
C8_Witness ==
    /\ call.fn = "__init__"
    /\ pc = "raised"
    /\ exc = "RuntimeError"
    /\ log = <<>>
    /\ src = <<None, "", "user">>

----------------------------------------------------------------------------
\* Lower than 6.3.1 in (major, minor, patch) order.
VersionGate_lex ==
    \/ major_version < 6
    \/ major_version = 6 /\ minor_version < 3
    \/ major_version = 6 /\ minor_version = 3 /\ patch_version < 1

\* C9: a call of security_tags_base that has ended has raised RuntimeError
\* without a request exactly when the detected version is lower than 6.3.1
\* in (major, minor, patch) order; otherwise it has sent the request.
C9_GateBelow631 ==
    call.fn = "security_tags_base" /\ Ended =>
        /\ VersionGate_lex <=> (pc = "raised" /\ exc = "RuntimeError" /\ log = <<>>)
        /\ ~VersionGate_lex => HttpIdx # {}

\* The server reported 6.2.1 and security_tags_base has sent its request.
C9_Witness ==
    /\ call.fn = "security_tags_base"
    /\ <<major_version, minor_version, patch_version>> = <<6, 2, 1>>
    /\ HttpIdx # {}

----------------------------------------------------------------------------
\* The accepted DELETE requests for fragment f among the first j requests.
AcceptedDeletes(f, j) ==
    {k \in 1..j : /\ log[k].method = "DELETE"
                  /\ log[k].url[2] = f
                  /\ log[k].status = no_content}

\* A repository that does what it is asked: it answers 200 to every refresh
\* and to every GET, 401 to at most one request, 204 to the DELETE of a
\* fragment it holds and 404 to the DELETE of a fragment already deleted.
Cooperative ==
    /\ \A j \in TokenIdx : log[j].status = ok
    /\ \A j \in Gets : log[j].status \in {ok, unauthorized}
    /\ Cardinality({j \in HttpIdx : log[j].status = unauthorized}) <= 1
    /\ \A j \in Deletes :
         IF AcceptedDeletes(log[j].url[2], j - 1) = {}
         THEN log[j].status \in {no_content, unauthorized}
         ELSE log[j].status = not_found

\* C10: against such a repository a call of delete_metadata that has ended
\* has returned, every fragment whose schema is the argument got exactly one
\* DELETE that was accepted, and no other fragment got a DELETE; also when
\* a 401 arrived after a matching fragment was deleted.
C10_DeletesEachMatchOnce ==
    call.fn = "delete_metadata" /\ Ended /\ Cooperative =>
        /\ pc = "returned"
        /\ \A f \in Matching : Cardinality(AcceptedDeletes(f, Len(log))) = 1
        /\ \A j \in Deletes : log[j].url[2] \in Matching

\* Two fragments match; the first was deleted, the DELETE of the second was
\* answered 401, the refresh 200, and the call sent DELETE for the first
\* fragment again.
C10_Witness ==
    /\ call.fn = "delete_metadata"
    /\ Cardinality(Matching) = 2
    /\ Cooperative
    /\ Len(log) = 4
    /\ log[1].method = "DELETE" /\ log[1].url[2] = 1 /\ log[1].status = no_content
    /\ log[2].method = "DELETE" /\ log[2].url[2] = 2 /\ log[2].status = unauthorized
    /\ log[3].kind = "token"
    /\ log[4].method = "DELETE" /\ log[4].url[2] = 1 /\ log[4].status = not_found
    /\ pc = "raised"

----------------------------------------------------------------------------
\* The server refused nothing: every refresh was answered 200 and every
\* request to the repository 200, 202 or 204.
NothingRefused ==
    /\ \A j \in TokenIdx : log[j].status = ok
    /\ \A j \in HttpIdx : log[j].status \in {ok, accepted, no_content}

\* The listings of identifiers the call has received.
Listings == {j \in HttpIdx : log[j].url[1] = "identifiers" /\ log[j].status = ok}

\* The identifiers of listing j that belong to the entity and match the
\* identifier_type and identifier_value of the call, where given.
MatchingIdentifiers(j) ==
    {k \in 1..Len(log[j].body) :
        /\ log[j].body[k].ref = call.ent.ref
        /\ call.key # 0 => log[j].body[k].type = call.key
        /\ call.val # 0 => log[j].body[k].value = call.val}

\* C11: a call of delete_identifiers that has ended, the server having
\* refused nothing, has read the identifiers of the entity and has returned
\* the entity; the DELETE requests it sent are one for each identifier of
\* the listing that belongs to the entity and matches identifier_type and
\* identifier_value (where given) and none for any other; and whenever it
\* returned the entity every DELETE was answered 204.
C11_DeletesMatchingIdentifiers ==
    call.fn = "delete_identifiers" /\ Ended =>
        /\ NothingRefused =>
              /\ pc = "returned" /\ ret.value = "entity"
              /\ Listings # {}
              /\ \A j \in Listings :
                    {log[k].url[2] : k \in {d \in Deletes : d > j}} = MatchingIdentifiers(j)
        /\ (pc = "returned" /\ ret.value = "entity") =>
              \A k \in Deletes : log[k].status = no_content

\* delete_identifiers has ended with AttributeError before any request.
C11_Witness ==
    /\ call.fn = "delete_identifiers"
    /\ pc = "raised"
    /\ exc = "AttributeError"
    /\ log = <<>>

----------------------------------------------------------------------------
\* C13: a call of security_tag_sync against a server that refuses nothing
\* and whose change leaves the ACTIVE state goes on until it returns: it
\* never ends by raising.
C13_SyncReturns ==
    call.fn = "security_tag_sync" /\ NothingRefused => pc # "raised"

\* The refresh was answered 200 and security_tag_sync has ended with
\* AttributeError, no change request sent.
C13_Witness ==
    /\ call.fn = "security_tag_sync"
    /\ pc = "raised"
    /\ exc = "AttributeError"
    /\ Len(log) = 1
    /\ log[1].kind = "token" /\ log[1].status = ok

----------------------------------------------------------------------------
YieldIdx == {j \in 1..Len(log) : log[j].kind = "yield"}

\* The pages the call has received.
Pages == {j \in HttpIdx : log[j].fn \in {"children", "_updated_entities_page"}
                            /\ log[j].status = ok}

\* The first request to the repository after the j-th entry of the log, 0 if
\* there is none.
NextRequest(j) ==
    LET later == {k \in HttpIdx : k > j}
    IN  IF later = {} THEN 0 ELSE CHOOSE k \in later : \A m \in later : k <= m

\* The entities yielded after page j and before the next request, in order.
YieldedAfter(j) ==
    LET k == IF NextRequest(j) = 0 THEN Len(log) + 1 ELSE NextRequest(j)
        F[m \in j..Len(log)] ==
            IF m = j THEN <<>>
            ELSE IF m < k /\ log[m].kind = "yield" THEN Append(F[m - 1], log[m].body[1])
            ELSE F[m - 1]
    IN  F[Len(log)]

\* The entities of page j: body is <<size, next>> and key the url of the page.
EntitiesOf(j) == {<<log[j].key, k>> : k \in 1..log[j].body[1]}

Range(q) == {q[k] : k \in 1..Len(q)}

\* Page j was followed as the generators follow a page: the entities yielded
\* after it are entities of it, none twice, all of them once the next request
\* was sent or the call returned; the next request, if any, is for the url of
\* its Next link, and there is none when it has no Next link.
Followed(j) ==
    /\ Range(YieldedAfter(j)) \subseteq EntitiesOf(j)
    /\ Cardinality(Range(YieldedAfter(j))) = Len(YieldedAfter(j))
    /\ (NextRequest(j) # 0 \/ pc = "returned") => Range(YieldedAfter(j)) = EntitiesOf(j)
    /\ NextRequest(j) # 0 =>
          /\ log[j].body[2] # 0
          /\ log[NextRequest(j)].url = <<"page", log[j].body[2]>>
    /\ pc = "returned" /\ NextRequest(j) = 0 => log[j].body[2] = 0

----------------------------------------------------------------------------
\* The server answered 401 to at most one request and 200 to every other
\* request and to every refresh.
OneExpiry ==
    /\ \A j \in TokenIdx : log[j].status = ok
    /\ \A j \in HttpIdx : log[j].status \in {ok, unauthorized}
    /\ Cardinality({j \in HttpIdx : log[j].status = unauthorized}) <= 1

\* C15: while updated_entities is iterated, a page request answered 401 and
\* followed by a successful refresh does not end the iteration: the next
\* request asks for the same page, and every page received is followed with
\* no entity skipped and none yielded twice.
C15_PageRetried ==
    call.fn = "updated_entities" =>
        /\ OneExpiry => pc # "raised"
        /\ \A j \in HttpIdx :
              (log[j].status = unauthorized /\ j + 2 <= Len(log) /\ log[j + 1].status = ok) =>
                  log[j + 2].kind = "http" /\ log[j + 2].url = log[j].url
        /\ \A j \in Pages : Followed(j)

\* The first page of updated_entities was yielded, the request for the
\* second was answered 401, the refresh 200, and the iteration has ended
\* with AttributeError.
C15_Witness ==
    /\ call.fn = "updated_entities"
    /\ pc = "raised"
    /\ exc = "AttributeError"
    /\ Len(log) = 4
    /\ log[1].status = ok /\ log[1].body = <<1, 1>>
    /\ log[2].kind = "yield"
    /\ log[3].url = <<"page", 1>> /\ log[3].status = unauthorized
    /\ log[4].kind = "token" /\ log[4].status = ok

----------------------------------------------------------------------------
\* C16: a call of move with dest_folder None that has ended has raised
\* RuntimeError without a request if the entity is not a Folder, and has
\* sent a request whose body is "@root@" if it is a Folder.
C16_OnlyFoldersToRoot ==
    call.fn = "move" /\ call.key = 0 /\ Ended =>
        IF call.ent.type # "SO"
        THEN pc = "raised" /\ exc = "RuntimeError" /\ log = <<>>
        ELSE HttpIdx # {} /\ log[NextRequest(0)].body = <<"@root@">>

\* move of a ContentObject to the root has ended with AttributeError.
C16_Witness ==
    /\ call.fn = "move"
    /\ call.key = 0
    /\ call.ent.type = "CO"
    /\ pc = "raised"
    /\ exc = "AttributeError"
    /\ log = <<>>

----------------------------------------------------------------------------
\* The package builders and the uploads.

BuilderOps ==
    {"simple_asset_package", "complex_asset_package", "generic_asset_package",
     "multi_asset_package"}

FsIdx == {j \in 1..Len(log) : log[j].kind = "fs"}

\* The call of a builder was given no parent folder, or an export folder that
\* is no existing directory.
InvalidFolders ==
    /\ call.fn \in BuilderOps
    /\ \/ call.val.parent_folder = None
       \/ call.val.export_folder \notin ExistingDirs \cup {None}

\* C17: a package builder called with parent_folder None, or with an
\* export_folder that is not an existing directory, creates no directory and
\* no file, and ends by raising RuntimeError.
C17_InvalidFoldersRaise ==
    InvalidFolders =>
        /\ FsIdx = {}
        /\ pc # "returned"
        /\ pc = "raised" => exc = "RuntimeError"

C17_Witness ==
    /\ pc = "raised"
    /\ exc = "RuntimeError"
    /\ call.fn = "multi_asset_package"
    /\ call.val.export_folder = "missing"
    /\ call.val.parent_folder # None
    /\ log = <<>>

\* The manifests written to metadata.xml.
WriteIdx == {j \in FsIdx : log[j].op = "write"}

Manifest == log[CHOOSE j \in WriteIdx : TRUE].data

RepresentationsOf(xip, rep_type) == {k \in 1..Len(xip.rep) : xip.rep[k].type = rep_type}

SimpleReturned == pc = "returned" /\ call.fn = "simple_asset_package"

\* The manifest of simple_asset_package(preservation_file, access_file) the
\* claim describes.
SimpleManifest(xip, preservation_file, access_file) ==
    /\ Len(xip.io) = 1
    /\ Cardinality(RepresentationsOf(xip, "Preservation"))
          = (IF preservation_file # NoFile THEN 1 ELSE 0)
    /\ Cardinality(RepresentationsOf(xip, "Access")) = (IF access_file # NoFile THEN 1 ELSE 0)
    /\ Len(xip.rep)
          = Cardinality(RepresentationsOf(xip, "Preservation") \cup RepresentationsOf(xip, "Access"))
    /\ \A k \in 1..Len(xip.rep) :
          /\ xip.rep[k].io = xip.io[1].ref
          /\ Len(xip.rep[k].cos) = 1
          /\ Cardinality({c \in 1..Len(xip.co) : xip.co[c].ref = xip.rep[k].cos[1]}) = 1

\* C18 as stated: every call of simple_asset_package that returns has built
\* one manifest, with exactly one asset, a Preservation representation iff
\* preservation_file is given, an Access representation iff access_file is
\* given, and exactly one content object in each representation.
C18_OneAssetManifest ==
    SimpleReturned =>
        /\ Cardinality(WriteIdx) = 1
        /\ SimpleManifest(Manifest, call.val.preservation_file, call.val.access_file)

\* C18: a call of simple_asset_package that returns and was given at least
\* one of the two files has built one manifest, with exactly one asset, a
\* Preservation representation iff preservation_file is given, an Access
\* representation iff access_file is given, and exactly one content object in
\* each representation; given neither file it writes nothing and returns None.
C18_OneAssetManifestOfGivenFiles ==
    SimpleReturned =>
        IF call.val.preservation_file = NoFile /\ call.val.access_file = NoFile
        THEN FsIdx = {} /\ ret.value = None
        ELSE /\ Cardinality(WriteIdx) = 1
             /\ SimpleManifest(Manifest, call.val.preservation_file, call.val.access_file)

C18_Witness ==
    /\ SimpleReturned
    /\ call.val.preservation_file # NoFile
    /\ call.val.access_file = NoFile
    /\ WriteIdx # {}
    /\ Len(Manifest.rep) = 1

\* C19: a call of complex_asset_package with access files and a dict as
\* Access_Content_Description returns a package in whose manifest every
\* access content object has the dict entry of its file as Description and
\* the title chosen by Access_Content_Title as Title.
C19_AccessDescriptionFromDict ==
    (/\ Ended
     /\ call.fn = "complex_asset_package"
     /\ ~InvalidFolders
     /\ call.val.access_files_list # <<>>
     /\ call.val.kwargs["Access_Content_Description"] = "dict")
    => /\ pc = "returned"
       /\ WriteIdx # {}
       /\ \A k \in RepresentationsOf(Manifest, "Access") :
            \A i \in 1..Len(Manifest.rep[k].cos), c \in 1..Len(Manifest.co) :
                Manifest.co[c].ref = Manifest.rep[k].cos[i] =>
                    /\ Manifest.co[c].description
                          = DictArg("Access_Content_Description", call.val.access_files_list[i])
                    /\ Manifest.co[c].title
                          = ContentText(call.val.kwargs, "Access_Content_Title",
                                        call.val.access_files_list[i])

C19_Witness ==
    /\ pc = "raised"
    /\ exc = "TypeError"
    /\ call.fn = "complex_asset_package"
    /\ call.val.access_files_list # <<>>
    /\ call.val.kwargs["Access_Content_Description"] = "dict"
    /\ call.val.kwargs["Access_Content_Title"] = Absent
    /\ FsIdx = {}

UploadOps == {"upload_zip_package", "upload_zip_package_to_S3"}

RemoveIdx == {j \in FsIdx : log[j].op = "remove"}

\* The uploads of the package at path that completed.
CompletedIdx(path) ==
    {j \in 1..Len(log) : log[j].kind = "upload" /\ log[j].path = path /\ log[j].data = TRUE}

\* C20: upload_zip_package and upload_zip_package_to_S3 remove the local
\* package only behind an upload of it that completed and only when
\* delete_after_upload is true; the package is not removed when the call
\* raised or delete_after_upload is false.
C20_DeleteOnlyAfterUpload ==
    call.fn \in UploadOps =>
        /\ \A j \in RemoveIdx :
              /\ call.flag
              /\ log[j].path = call.key
              /\ \E i \in CompletedIdx(call.key) : i < j
        /\ (pc = "raised" \/ ~call.flag) => RemoveIdx = {}

C20_Witness ==
    /\ pc = "returned"
    /\ call.fn = "upload_zip_package"
    /\ call.flag
    /\ CompletedIdx(call.key) # {}
    /\ RemoveIdx # {}

----------------------------------------------------------------------------
\* C22: a call of security_tags_base(with_permissions=True) that returns,
\* returns the map from each tag name to its list of permissions, whether or
\* not a request of the call was answered 401 and the token refreshed.
C22_PermissionsDespite401 ==
    (pc = "returned" /\ call.fn = "security_tags_base" /\ call.flag) =>
        ret.value = "dict name -> permissions"

\* The first request was answered 401, the refresh and the request sent
\* again 200: the call returned the map from each tag name to itself.
C22_Witness ==
    /\ pc = "returned"
    /\ call.fn = "security_tags_base"
    /\ call.flag
    /\ Cardinality(HttpIdx) = 2
    /\ \E j \in HttpIdx : log[j].status = unauthorized
    /\ \E j \in HttpIdx : log[j].status = ok
    /\ ret.value = "dict name -> name"

----------------------------------------------------------------------------
\* The content-object references the representations of a manifest list, by
\* their place: <<representation, position>>.
ListedRefs(xip) ==
    UNION {{<<k, i>> : i \in 1..Len(xip.rep[k].cos)} : k \in 1..Len(xip.rep)}

\* The manifest a call of complex_asset_package, generic_asset_package or
\* multi_asset_package returned with.
ManifestBuilt ==
    /\ pc = "returned"
    /\ call.fn \in {"complex_asset_package", "generic_asset_package", "multi_asset_package"}
    /\ WriteIdx # {}

\* C21: in the manifest of complex_asset_package, generic_asset_package and
\* multi_asset_package, every content-object reference listed in a
\* Representation is the Ref of exactly one ContentObject and the
\* ContentObject of exactly one Generation, the listed references are
\* pairwise distinct, every ContentObject is listed by a Representation of
\* the asset its Parent names, and there are as many Bitstream elements as
\* content objects.
C21_ManifestReferences ==
    ManifestBuilt =>
        LET xip == Manifest
            ref(p) == xip.rep[p[1]].cos[p[2]]
        IN  /\ \A p \in ListedRefs(xip) :
                /\ Cardinality({c \in 1..Len(xip.co) : xip.co[c].ref = ref(p)}) = 1
                /\ Cardinality({g \in 1..Len(xip.gen) : xip.gen[g].co = ref(p)}) = 1
            /\ \A p, q \in ListedRefs(xip) : p # q => ref(p) # ref(q)
            /\ \A c \in 1..Len(xip.co) :
                \E p \in ListedRefs(xip) :
                    /\ ref(p) = xip.co[c].ref
                    /\ xip.co[c].parent = xip.rep[p[1]].io
                    /\ \E a \in 1..Len(xip.io) : xip.io[a].ref = xip.co[c].parent
            /\ Len(xip.bit) = Len(xip.co)

\* complex_asset_package was given the same preservation file twice and an
\* access file: two representations, three content objects.
C21_Witness ==
    /\ ManifestBuilt
    /\ call.fn = "complex_asset_package"
    /\ Len(call.val.preservation_files_list) = 2
    /\ call.val.preservation_files_list[1] = call.val.preservation_files_list[2]
    /\ Len(call.val.access_files_list) = 1
    /\ Len(Manifest.rep) = 2
    /\ Len(Manifest.co) = 3

====
